---- MODULE Spec2Model ----
(***************************************************************************)
(* Model of the soropad launchpad front end: the revoke write path of the  *)
(* vesting panel (VestingProgress.tsx: VestingProgress, VestingDisplay),   *)
(* the confirmation dialog, the wallet provider's signTransaction, and     *)
(* buildRevokeTransaction and submitTransaction of lib/soroban.ts.         *)
(*                                                                         *)
(* The ledger service (Soroban RPC), the historical query service          *)
(* (Horizon) and the signing authority (Freighter) are the environment:    *)
(* every request the code awaits is answered by an action that draws the   *)
(* answer from the answers the service can give.  The ledger service       *)
(* always answers with one of its statuses; Horizon may fail to load the   *)
(* account.                                                                *)
(*                                                                         *)
(* An action is what runs between two awaits (or timers) of the code:      *)
(* React applies the state updates of a click before the next event, and   *)
(* the continuation of an await runs to the next await without any other   *)
(* handler in between.                                                     *)
(*                                                                         *)
(* A handleRevoke run is a record of ops: the position it is suspended at, *)
(* the values its closure holds, and a log of what it has requested and    *)
(* been answered, which the properties are stated over.                    *)
(***************************************************************************)
EXTENDS Integers, Sequences, FiniteSets

\* ------------------------------------------------------------------------
\* Bounds of the model
\* ------------------------------------------------------------------------
\* handleRevoke runs in flight plus pending refresh timers
MaxPending == 2
\* NOT_FOUND answers of the ledger service to one transaction, in the
\* specification that follows several runs at once
MaxNotFound == 1
\* lookups awaiting their answer at the same time
MaxLookups == 2
\* account records in one page of holders
MaxHolders == 3
\* the largest balance of a holder, in stroops
MaxBalance == 4
\* the largest total amount of a schedule, beside the scenario's
MaxTotal == 4
\* the largest ledger number, beside the scenario's
MaxLedger == 4
\* calls made through useSoroban
MaxRequests == 3
\* renders of one VestingDisplay
MaxRenders == 2
\* the largest small raw amount formatted, of either sign
MaxRaw == 11
\* the longest address truncated, beside the scenario's
MaxAddress == 12
\* the largest chars passed to truncateAddress, beside the callers'
MaxChars == 6
\* handleAction runs of AdminPanel under way at the same time
MaxActions == 2
\* pages of operations in the history of the account
MaxPages == 4
\* performFetch runs of ActivityFeed under way at the same time
MaxFetches == 2

\* ------------------------------------------------------------------------
\* Program constants
\* ------------------------------------------------------------------------
\* soroban.ts:411  const maxAttempts = 30;
maxAttempts == 30

\* ------------------------------------------------------------------------
\* Value sets
\* ------------------------------------------------------------------------
Null == "null"
\* the text of the two inputs of the lookup form ("" is the empty input)
ContractInputs == {"", "CVEST"}
RecipientInputs == {"", "GRECIP"}
\* the key Freighter reports for the connected account
WalletKey == "GADMIN"
\* hashes a sendTransaction response may carry
Hashes == {"h1"}
\* what the code reads from a getTransaction response that is not a hash
NoHash == "nohash"
\* error payloads of the ledger service (errorResult / resultXdr)
Payloads == {"xdrA"}
NoPayload == "nopayload"
\* rpc.Api.SendTransactionStatus
SendStatuses == {"PENDING", "DUPLICATE", "TRY_AGAIN_LATER", "ERROR"}
\* rpc.Api.GetTransactionStatus, and OTHER for any further terminal status of
\* the poll operation
GetStatuses == {"NOT_FOUND", "SUCCESS", "FAILED", "OTHER"}
\* answers of simulateTransaction: error, success, or neither
SimKinds == {"error", "success", "neither"}

\* an argument left out, a variable of the environment not set
Undefined == "undefined"

Ops == 1..MaxPending

\* the order of the steps of one revoke write path
StepOrder == <<"loadAccount", "simulate", "assemble", "sign", "send">>

VARIABLES
  publicKey,          \* WalletProvider: the connected key or Null
  vestingContract,    \* VestingProgress: input "Vesting Contract ID"
  recipient,          \* VestingProgress: input "Recipient Address"
  schedule,           \* VestingProgress: NoSchedule or the fetched schedule
  loading,            \* VestingProgress: a lookup is running
  error,              \* VestingProgress: a lookup failed
  lookups,            \* fetches awaited by lookup(), in the order started
  timers,             \* pending setTimeout(onRevoked, 2000) callbacks
  showConfirmDialog,  \* VestingDisplay state
  isRevoking,         \* VestingDisplay state
  toast,              \* VestingDisplay state: Null, "success" or "error"
  ops,                \* the handleRevoke runs
  chainRevoked,       \* the ledger: schedules (contract, recipient) revoked
  token,              \* the contract at contractId: what its methods answer
  tokenInfo,          \* TokenDashboard state: NoTokenInfo or the TokenInfo
  holders,            \* TokenDashboard state
  supplyBreakdown,    \* TokenDashboard state: NoBreakdown or the breakdown
  dashLoading,        \* TokenDashboard state: loading
  dashError,          \* TokenDashboard state: error
  load,               \* the loadData run
  topHolders,         \* a call of fetchTopHolders
  vesting,            \* VestingDisplay props: the schedule and currentLedger
  vestingView,        \* what VestingDisplay computes from them on render
  network,            \* NetworkProvider state
  moduleConfig,       \* lib/stellar.ts: the configuration read at module load
  requests,           \* the calls made through useSoroban, each with the
                      \* configuration it worked with
  processEnv,         \* process.env.NEXT_PUBLIC_NETWORK_PASSPHRASE
  amount,             \* an amount on its way from the contract to the page
  truncation,         \* a call of truncateAddress
  adminPanel,         \* AdminPanel state
  adminRuns,          \* the handleAction runs of AdminPanel
  feed,               \* ActivityFeed state
  fetches             \* the performFetch runs of ActivityFeed

\* the variables of the vesting panel and its revoke write path
panelVars == <<publicKey, vestingContract, recipient, schedule, loading,
               error, lookups, timers, showConfirmDialog, isRevoking, toast,
               ops, chainRevoked>>

dashVars == <<token, tokenInfo, holders, supplyBreakdown, dashLoading,
              dashError, load>>
holderVars == <<topHolders>>
vestingVars == <<vesting, vestingView>>
netVars == <<network, moduleConfig, requests>>

textVars == <<amount, truncation>>
adminVars == <<adminPanel, adminRuns>>
feedVars == <<feed, fetches>>
\* what the handlers of the dashboard, the holders, the vesting display and
\* the network provider leave alone beside one another's variables
otherVars == <<processEnv, textVars, adminVars, feedVars>>

\* what the vesting panel's handlers leave alone
libVars == <<dashVars, holderVars, vestingVars, netVars, otherVars>>

vars == <<panelVars, libVars>>

formVars == <<vestingContract, recipient>>
lookupVars == <<schedule, loading, error, lookups>>
displayVars == <<showConfirmDialog, isRevoking, toast>>

\* ------------------------------------------------------------------------
\* Networks and passphrases
\* ------------------------------------------------------------------------
NetworkTypes == {"testnet", "mainnet"}

\* types/network.ts: NETWORKS
NETWORKS(n) ==
  IF n = "testnet"
  THEN [network |-> "testnet",
        horizonUrl |-> "https://horizon-testnet.stellar.org",
        rpcUrl |-> "https://soroban-testnet.stellar.org",
        passphrase |-> "Test SDF Network ; September 2015"]
  ELSE [network |-> "mainnet",
        horizonUrl |-> "https://horizon.stellar.org",
        rpcUrl |-> "https://mainnet.stellar.org:443",
        passphrase |-> "Public Global Stellar Network ; September 2015"]

\* NetworkProvider.tsx:41: networkConfig
networkConfig == NETWORKS(network)

\* StellarSdk.Networks.TESTNET
TESTNET == NETWORKS("testnet").passphrase

\* what NEXT_PUBLIC_NETWORK_PASSPHRASE may hold in a build
EnvPassphrases == {Undefined} \cup {NETWORKS(n).passphrase : n \in NetworkTypes}

\* soroban.ts:66-67, stellar.ts:11-12:
\* process.env.NEXT_PUBLIC_NETWORK_PASSPHRASE ?? StellarSdk.Networks.TESTNET
NETWORK_PASSPHRASE == IF processEnv = Undefined THEN TESTNET ELSE processEnv

\* VestingProgress.tsx:124-126: the options handleRevoke passes to
\* signTransaction
RevokeSignOpts == [networkPassphrase |-> processEnv]

\* NetworkProvider.tsx:183-186: { networkPassphrase: networkConfig.passphrase,
\* ...opts }: a key of opts replaces the default, whatever its value
finalOpts(opts) ==
  [networkPassphrase |->
     IF "networkPassphrase" \in DOMAIN opts
     THEN opts.networkPassphrase
     ELSE networkConfig.passphrase]

\* no options yet
NoOpts == [networkPassphrase |-> Null]

\* ------------------------------------------------------------------------
\* Envelopes
\* ------------------------------------------------------------------------
NoEnvelope == [contract |-> Null, recipient |-> Null, source |-> Null,
               passphrase |-> Null, assembled |-> FALSE, signed |-> FALSE]

\* soroban.ts:365-371  TransactionBuilder(sourceAccount).addOperation(
\* contract.call("revoke", recipientScVal)).build()
BuildEnvelope(c, r, src) ==
  [contract |-> c, recipient |-> r, source |-> src,
   passphrase |-> NETWORK_PASSPHRASE, assembled |-> FALSE, signed |-> FALSE]

\* soroban.ts:385  rpc.assembleTransaction(tx, simulated)
assembleTransaction(tx) == [tx EXCEPT !.assembled = TRUE]

\* the signing authority: the envelope it was given, signed
freighterSignTransaction(xdr) == [xdr EXCEPT !.signed = TRUE]

\* useState<VestingScheduleInfo | null>(null)
\* contract is the contract a schedule was read from: no field of
\* VestingScheduleInfo, kept for the properties
NoSchedule == [contract |-> Null, recipient |-> Null, revoked |-> FALSE]

\* a handleRevoke run that has not started
IdleOp ==
  [pc |-> "idle",            \* the await the run is suspended at
   display |-> FALSE,        \* the VestingDisplay that started it is mounted
   onRevoked |-> <<"", "">>, \* the inputs the captured lookup closes over
   args |-> <<Null, Null, Null>>, \* arguments of buildRevokeTransaction
   tx |-> NoEnvelope,        \* tx of buildRevokeTransaction
   xdr |-> NoEnvelope,       \* what buildRevokeTransaction returned
   signReq |-> NoEnvelope,   \* what was handed to the signing authority
   signOpts |-> NoOpts,      \* the options it was handed with
   sent |-> NoEnvelope,      \* what was handed to sendTransaction
   parsedWith |-> Null,      \* the passphrase submitTransaction parsed it with
   hash |-> NoHash,          \* result.hash
   attempts |-> 0,           \* submitTransaction: attempts
   begun |-> <<>>,           \* steps begun, in order
   completed |-> <<>>,       \* steps that completed successfully, in order
   simKind |-> Null,         \* the answer of simulateTransaction
   signError |-> FALSE,      \* the signing authority returned an error
   sendStatus |-> Null,      \* result.status
   polls |-> 0,              \* getTransaction requests issued
   statuses |-> <<>>,        \* getTransaction answers, in order
   outcome |-> Null,         \* how the run ended
   payload |-> NoPayload,    \* the payload its error carries
   returned |-> NoHash]      \* what submitTransaction returned

\* ------------------------------------------------------------------------
\* Initial state: the dashboard has rendered, no wallet, an empty form
\* ------------------------------------------------------------------------
InitPanel ==
  /\ publicKey = Null
  /\ vestingContract = ""
  /\ recipient = ""
  /\ schedule = NoSchedule
  /\ loading = FALSE
  /\ error = Null
  /\ lookups = <<>>
  /\ timers = <<>>
  /\ showConfirmDialog = FALSE
  /\ isRevoking = FALSE
  /\ toast = Null
  /\ ops = [o \in Ops |-> IdleOp]
  /\ chainRevoked = {}

\* ------------------------------------------------------------------------
\* WalletProvider
\* ------------------------------------------------------------------------
connected == publicKey # Null

\* connect(): Freighter grants access and reports the address
Connect ==
  /\ ~connected
  /\ publicKey' = WalletKey
  /\ UNCHANGED <<formVars, lookupVars, timers, displayVars, ops,
                 chainRevoked,
                 libVars>>

\* disconnect()
Disconnect ==
  /\ connected
  /\ publicKey' = Null
  /\ UNCHANGED <<formVars, lookupVars, timers, displayVars, ops,
                 chainRevoked,
                 libVars>>

\* ------------------------------------------------------------------------
\* VestingProgress: the lookup form
\* ------------------------------------------------------------------------
SetVestingContract(v) ==
  /\ v # vestingContract
  /\ vestingContract' = v
  /\ UNCHANGED <<publicKey, recipient, lookupVars, timers, displayVars, ops,
                 chainRevoked,
                 libVars>>

SetRecipient(v) ==
  /\ v # recipient
  /\ recipient' = v
  /\ UNCHANGED <<publicKey, vestingContract, lookupVars, timers, displayVars,
                 ops, chainRevoked,
                 libVars>>

\* {schedule && <VestingDisplay/>}: the display is mounted iff a schedule is set
displayMounted == schedule # NoSchedule

\* the state of a VestingDisplay when it is removed from the page: its runs
\* keep going, their setState calls no longer reach a component
Unmounted(os) == [o \in Ops |-> [os[o] EXCEPT !.display = FALSE]]

\* lookup() called with the inputs (c, r) its closure holds
lookup(c, r) ==
  IF c = "" \/ r = ""
  THEN UNCHANGED <<lookupVars, displayVars, ops>>
  ELSE /\ Len(lookups) < MaxLookups
       /\ loading' = TRUE
       /\ error' = Null
       /\ schedule' = NoSchedule
       /\ lookups' = Append(lookups, [contract |-> c, recipient |-> r])
       /\ showConfirmDialog' = FALSE
       /\ isRevoking' = FALSE
       /\ toast' = Null
       /\ ops' = Unmounted(ops)

\* the button "Look Up Schedule"
LookUpSchedule ==
  /\ ~loading /\ vestingContract # "" /\ recipient # ""
  /\ lookup(vestingContract, recipient)
  /\ UNCHANGED <<publicKey, formVars, timers, chainRevoked,
                 libVars>>

\* what fetchVestingSchedule decodes for (c, r)
fetchVestingSchedule(c, r) ==
  [contract |-> c, recipient |-> r, revoked |-> (<<c, r>> \in chainRevoked)]

\* the two fetches of lookup number i are answered: both succeeded (ok) or
\* one of them failed
LookupResponse(i, ok) ==
  /\ i \in 1..Len(lookups)
  /\ lookups' = [j \in 1..(Len(lookups) - 1) |->
                   IF j < i THEN lookups[j] ELSE lookups[j + 1]]
  /\ loading' = FALSE
  /\ IF ok
     THEN /\ schedule' = fetchVestingSchedule(lookups[i].contract,
                                              lookups[i].recipient)
          /\ error' = error
     ELSE /\ schedule' = schedule
          /\ error' = "failed"
  /\ UNCHANGED <<publicKey, formVars, timers, displayVars, ops,
                 chainRevoked,
                 libVars>>

\* setTimeout(() => onRevoked(), 2000) fires: the captured lookup runs
RefreshTimer ==
  /\ timers # <<>>
  /\ timers' = Tail(timers)
  /\ lookup(Head(timers)[1], Head(timers)[2])
  /\ UNCHANGED <<publicKey, formVars, chainRevoked,
                 libVars>>

\* ------------------------------------------------------------------------
\* VestingDisplay: buttons, dialog, toast
\* ------------------------------------------------------------------------
\* the button "Revoke Schedule": rendered for a schedule that is not revoked
\* and a connected wallet, disabled={isRevoking}
RevokeButtonEnabled ==
  /\ displayMounted
  /\ ~schedule.revoked
  /\ connected
  /\ ~isRevoking

ClickRevokeSchedule ==
  /\ RevokeButtonEnabled
  /\ showConfirmDialog' = TRUE
  /\ UNCHANGED <<publicKey, formVars, lookupVars, timers, isRevoking, toast,
                 ops, chainRevoked,
                 libVars>>

\* ConfirmDialog: rendered when isOpen, its buttons disabled={loading}
ConfirmEnabled == displayMounted /\ showConfirmDialog /\ ~isRevoking

\* the dialog's Cancel / close / Escape / backdrop
DialogCancel ==
  /\ ConfirmEnabled
  /\ showConfirmDialog' = FALSE
  /\ UNCHANGED <<publicKey, formVars, lookupVars, timers, isRevoking, toast,
                 ops, chainRevoked,
                 libVars>>

\* the toast's close button
CloseToast ==
  /\ displayMounted /\ toast # Null
  /\ toast' = Null
  /\ UNCHANGED <<publicKey, formVars, lookupVars, timers, showConfirmDialog,
                 isRevoking, ops, chainRevoked,
                 libVars>>

\* ------------------------------------------------------------------------
\* handleRevoke and the functions it awaits
\* ------------------------------------------------------------------------
\* a run that has ended: its closure (the arguments and the captured lookup)
\* is gone, the record of what it did stays until the record is used again
Ended(op) == [op EXCEPT !.pc = "done",
                        !.display = FALSE,
                        !.onRevoked = IdleOp.onRevoked,
                        !.args = IdleOp.args]

\* handleRevoke, catch and finally: the run o ends with an error
Throw(o, op) ==
  /\ ops' = [ops EXCEPT ![o] = Ended(op)]
  /\ IF ops[o].display
     THEN /\ toast' = "error"
          /\ isRevoking' = FALSE
          /\ UNCHANGED showConfirmDialog
     ELSE UNCHANGED displayVars
  /\ UNCHANGED timers

\* handleRevoke after submitTransaction returned: the success toast, the
\* delayed onRevoked, and finally
Succeed(o, op) ==
  /\ ops' = [ops EXCEPT ![o] = Ended(op)]
  /\ timers' = Append(timers, op.onRevoked)
  /\ IF ops[o].display
     THEN /\ toast' = "success"
          /\ isRevoking' = FALSE
          /\ UNCHANGED showConfirmDialog
     ELSE UNCHANGED displayVars

\* new StellarSdk.Contract(id) throws for an id that is no contract address
ValidContractId(id) == id # ""

\* the runs suspended at an await
InFlight == {o \in Ops : ops[o].pc \notin {"idle", "done"}}

\* the records of S that hold no suspended run
FreeSlots(S) == S \ InFlight

\* the dialog's confirm button: handleRevoke up to its first await; the run
\* is recorded in the first free record of S
HandleRevoke(S) ==
  /\ ConfirmEnabled
  /\ IF ~connected
     THEN /\ toast' = "error"
          /\ UNCHANGED <<showConfirmDialog, isRevoking, ops>>
     ELSE /\ FreeSlots(S) # {}
          /\ Cardinality(InFlight) + Len(timers) < MaxPending
          /\ LET o == CHOOSE x \in FreeSlots(S) :
                        \A y \in FreeSlots(S) : x <= y
                 op == [IdleOp EXCEPT
                          !.display = TRUE,
                          !.onRevoked = <<vestingContract, recipient>>,
                          !.args = <<vestingContract, schedule.recipient,
                                     publicKey>>]
             IN IF ValidContractId(vestingContract)
                THEN /\ ops' = [ops EXCEPT ![o] =
                                  [op EXCEPT !.pc = "loadAccount",
                                             !.begun = <<"loadAccount">>]]
                     /\ isRevoking' = TRUE
                     /\ showConfirmDialog' = FALSE
                     /\ toast' = toast
                ELSE /\ ops' = [ops EXCEPT ![o] =
                                  Ended([op EXCEPT
                                           !.outcome = "BuildFailed"])]
                     /\ isRevoking' = FALSE
                     /\ showConfirmDialog' = FALSE
                     /\ toast' = "error"
  /\ UNCHANGED <<publicKey, formVars, lookupVars, timers, chainRevoked,
                 libVars>>

\* horizon.loadAccount answers; on success the transaction is built and
\* rpc.simulateTransaction is requested
LoadAccountResponse(o, ok) ==
  /\ ops[o].pc = "loadAccount"
  /\ IF ok
     THEN /\ ops' = [ops EXCEPT ![o] =
                       [@ EXCEPT !.pc = "simulate",
                                 !.tx = BuildEnvelope(ops[o].args[1],
                                                      ops[o].args[2],
                                                      ops[o].args[3]),
                                 !.completed = Append(@, "loadAccount"),
                                 !.begun = Append(@, "simulate")]]
          /\ UNCHANGED <<displayVars, timers>>
     ELSE Throw(o, [ops[o] EXCEPT !.outcome = "BuildFailed"])
  /\ UNCHANGED <<publicKey, formVars, lookupVars, chainRevoked,
                 libVars>>

\* the check of line 380 left out
SimulationRejected_ErrorOnly(k) == k = "error"

\* soroban.ts:376-382: the two checks on the simulation's answer
SimulationRejected(k) == k = "error" \/ ~(k = "success")

\* VestingProgress.tsx:124: the envelope handed to signTransaction
SignArgument(xdr) == xdr

\* rpc.simulateTransaction answers; on success the transaction is assembled,
\* buildRevokeTransaction returns and signTransaction is requested
SimulateResponse(o, k) ==
  /\ ops[o].pc = "simulate"
  /\ IF SimulationRejected(k)
     THEN Throw(o, [ops[o] EXCEPT !.simKind = k,
                                  !.outcome = "SimulationFailed"])
     ELSE /\ ops' = [ops EXCEPT ![o] =
                       [@ EXCEPT
                          !.pc = "sign",
                          !.simKind = k,
                          !.xdr = assembleTransaction(ops[o].tx),
                          !.signReq = SignArgument(assembleTransaction(ops[o].tx)),
                          !.signOpts = finalOpts(RevokeSignOpts),
                          !.completed = @ \o <<"simulate", "assemble">>,
                          !.begun = @ \o <<"assemble", "sign">>]]
          /\ UNCHANGED <<displayVars, timers>>
  /\ UNCHANGED <<publicKey, formVars, lookupVars, chainRevoked,
                 libVars>>

\* the error of the signing authority ignored
SignRejected_Ignored(err) == FALSE

\* NetworkProvider.tsx:191-193: if (error) throw
SignRejected(err) == err

\* the unsigned envelope submitted
SubmitArgument_Unsigned(xdr, signedXdr) == xdr

\* VestingProgress.tsx:129: the envelope handed to submitTransaction
SubmitArgument(xdr, signedXdr) == signedXdr

\* the signing authority answers; on success submitTransaction is called and
\* rpc.sendTransaction is requested
SignResponse(o, err) ==
  /\ ops[o].pc = "sign"
  /\ IF SignRejected(err)
     THEN Throw(o, [ops[o] EXCEPT !.signError = err,
                                  !.outcome = "SigningRejected"])
     ELSE /\ ops' = [ops EXCEPT ![o] =
                       [@ EXCEPT
                          !.pc = "send",
                          !.signError = err,
                          !.sent = SubmitArgument(ops[o].xdr,
                                     IF err THEN NoEnvelope
                                     ELSE freighterSignTransaction(ops[o].signReq)),
                          !.parsedWith = NETWORK_PASSPHRASE,
                          !.completed = Append(@, "sign"),
                          !.begun = Append(@, "send")]]
          /\ UNCHANGED <<displayVars, timers>>
  /\ UNCHANGED <<publicKey, formVars, lookupVars, chainRevoked,
                 libVars>>

\* the status of the submit response not looked at
SubmissionRejected_Never(status) == FALSE

\* soroban.ts:402: if (result.status === "ERROR") throw
SubmissionRejected(status) == status = "ERROR"

\* rpc.sendTransaction answers; unless it reports ERROR the first
\* getTransaction is requested
SendResponse(o, status, h, p) ==
  /\ ops[o].pc = "send"
  /\ IF status = "ERROR" THEN h = NoHash /\ p \in Payloads
     ELSE h \in Hashes /\ p = NoPayload
  /\ IF SubmissionRejected(status)
     THEN Throw(o, [ops[o] EXCEPT !.sendStatus = status,
                                  !.outcome = "Failed",
                                  !.payload = p])
     ELSE /\ ops' = [ops EXCEPT ![o] =
                       [@ EXCEPT !.pc = "firstPoll",
                                 !.sendStatus = status,
                                 !.hash = h,
                                 !.completed = Append(@, "send"),
                                 !.polls = 1,
                                 !.attempts = 0]]
          /\ UNCHANGED <<displayVars, timers>>
  /\ UNCHANGED <<publicKey, formVars, lookupVars, chainRevoked,
                 libVars>>

\* the loop goes on whatever the status
LoopContinues_IgnoresStatus(status, attempts) == attempts < maxAttempts

\* soroban.ts:413: the condition of the polling loop
LoopContinues(status, attempts) ==
  status = "NOT_FOUND" /\ attempts < maxAttempts

\* NOT_FOUND after the loop reported as a failed transaction
PollOutcome_TimeoutAsFailed(status) ==
  IF status \in {"NOT_FOUND", "FAILED"} THEN "Failed" ELSE "Success"

\* soroban.ts:419-429: what submitTransaction does after the loop
PollOutcome(status) ==
  IF status = "NOT_FOUND" THEN "TimedOut"
  ELSE IF status = "FAILED" THEN "Failed"
  ELSE "Success"

\* a hash read from the poll response, which the model's answers lack
ReturnedHash_FromPoll(resultHash) == NoHash

\* soroban.ts:429: return result.hash
ReturnedHash(resultHash) == resultHash

\* rpc.getTransaction answers: the answer to the request before the loop
\* (firstPoll) or to a request of the loop (loopPoll, then attempts++)
PollResponse(o, status, p) ==
  /\ ops[o].pc \in {"firstPoll", "loopPoll"}
  /\ IF status = "FAILED" THEN p \in Payloads ELSE p = NoPayload
  /\ LET att == IF ops[o].pc = "loopPoll" THEN ops[o].attempts + 1
                ELSE ops[o].attempts
         op == [ops[o] EXCEPT !.attempts = att,
                              !.statuses = Append(@, status)]
     IN IF LoopContinues(status, att)
        THEN /\ ops' = [ops EXCEPT ![o] = [op EXCEPT !.pc = "sleep"]]
             /\ UNCHANGED <<displayVars, timers>>
        ELSE IF PollOutcome(status) = "Success"
        THEN Succeed(o, [op EXCEPT !.outcome = "Success",
                                   !.returned = ReturnedHash(op.hash)])
        ELSE Throw(o, [op EXCEPT !.outcome = PollOutcome(status),
                                 !.payload = p])
  /\ chainRevoked' = IF status = "SUCCESS"
                     THEN chainRevoked \cup
                            {<<ops[o].tx.contract, ops[o].tx.recipient>>}
                     ELSE chainRevoked
  /\ UNCHANGED <<publicKey, formVars, lookupVars, libVars>>

\* the ledger service answers the poll of run o; it has answered NOT_FOUND
\* to at most nf polls of the transaction
PollAnswer(o, nf) ==
  \E st \in GetStatuses, p \in Payloads \cup {NoPayload} :
    /\ (st = "NOT_FOUND") => Len(ops[o].statuses) < nf
    /\ PollResponse(o, st, p)

\* the loop's setTimeout(resolve, 1000) fires: the next getTransaction is
\* requested
PollTimer(o) ==
  /\ ops[o].pc = "sleep"
  /\ ops' = [ops EXCEPT ![o] = [@ EXCEPT !.pc = "loopPoll",
                                         !.polls = @ + 1]]
  /\ UNCHANGED <<publicKey, formVars, lookupVars, timers, displayVars,
                 chainRevoked,
                 libVars>>

\* ------------------------------------------------------------------------
\* lib/stellar.ts: decoding and formatting
\* ------------------------------------------------------------------------
\* the sentinel of a field the contract does not provide; the strings the
\* code formats, or sets to the sentinel, are the sequences of their
\* characters
Sentinel == <<"N", "/", "A">>

\* BigInt division and remainder: the quotient is truncated towards zero, the
\* remainder has the sign of the dividend
BigIntDiv(a, b) ==
  IF (a >= 0) = (b > 0) THEN (IF a >= 0 THEN a ELSE -a) \div
                               (IF b >= 0 THEN b ELSE -b)
  ELSE -((IF a >= 0 THEN a ELSE -a) \div (IF b >= 0 THEN b ELSE -b))

BigIntRem(a, b) == a - b * BigIntDiv(a, b)

RECURSIVE Pow10(_)
Pow10(n) == IF n = 0 THEN 1 ELSE 10 * Pow10(n - 1)

DigitChars == <<"0", "1", "2", "3", "4", "5", "6", "7", "8", "9">>

\* the decimal digits of n >= 0, a string as the sequence of its characters
RECURSIVE Digits(_)
Digits(n) ==
  IF n < 10 THEN <<DigitChars[n + 1]>>
  ELSE Append(Digits(n \div 10), DigitChars[(n % 10) + 1])

\* BigInt.prototype.toString()
BigIntToString(n) == IF n < 0 THEN <<"-">> \o Digits(-n) ELSE Digits(n)

\* the digits d with a comma before every group of three from the right
RECURSIVE Grouped(_)
Grouped(d) ==
  IF Len(d) <= 3 THEN d
  ELSE Grouped(SubSeq(d, 1, Len(d) - 3)) \o <<",">> \o
       SubSeq(d, Len(d) - 2, Len(d))

\* BigInt.prototype.toLocaleString() in the en-US locale
toLocaleString(n) ==
  IF n < 0 THEN <<"-">> \o Grouped(Digits(-n)) ELSE Grouped(Digits(n))

\* String.prototype.padStart(len, "0")
RECURSIVE padStart(_, _)
padStart(str, len) ==
  IF Len(str) >= len THEN str ELSE padStart(<<"0">> \o str, len)

\* String.prototype.replace(/0+$/, "")
RECURSIVE StripTrailingZeros(_)
StripTrailingZeros(str) ==
  IF str # <<>> /\ str[Len(str)] = "0"
  THEN StripTrailingZeros(SubSeq(str, 1, Len(str) - 1))
  ELSE str

\* formatTokenAmount(raw, decimals) for a raw amount that is not "N/A"
formatTokenAmount(raw, decimals) ==
  LET divisor == Pow10(decimals)
      whole == BigIntDiv(raw, divisor)
      frac == BigIntRem(raw, divisor)
      fracStr == StripTrailingZeros(padStart(BigIntToString(frac), decimals))
  IN IF frac = 0 THEN toLocaleString(whole)
     ELSE toLocaleString(whole) \o <<".">> \o fracStr

\* ------------------------------------------------------------------------
\* lib/stellar.ts: an amount from the contract to the page, and addresses
\* ------------------------------------------------------------------------
\* the value of a digit
DigitValue(c) == CHOOSE i \in 0..9 : DigitChars[i + 1] = c

\* the value of a string of digits
RECURSIVE DigitsValue(_)
DigitsValue(str) ==
  IF str = <<>> THEN 0
  ELSE 10 * DigitsValue(SubSeq(str, 1, Len(str) - 1)) +
       DigitValue(str[Len(str)])

\* stellar.ts:272  BigInt(raw) of the decimal string of an integer
BigInt(str) ==
  IF str[1] = "-" THEN -DigitsValue(Tail(str)) ELSE DigitsValue(str)

\* hi << BigInt(64); a high word other than zero is past the integers of
\* the model
ShiftLeft64(hi) == IF hi = 0 THEN 0 ELSE hi * (2 ^ 64)

\* the low word dropped
decodeI128_HighWordOnly(hi, lo) == BigIntToString(ShiftLeft64(hi))

\* stellar.ts:95-100: decodeI128, of the two words of val.i128()
decodeI128(hi, lo) == BigIntToString(ShiftLeft64(hi) + lo)

\* stellar.ts:131-143: what fetchTokenInfo makes of the answer to
\* total_supply
TotalSupplyOf(hi, lo, decimals) ==
  formatTokenAmount(BigInt(decodeI128(hi, lo)), decimals)

\* the raw amounts formatted: the small ones of either sign, and those of
\* the scenarios
ScenarioAmounts == {10000000, 15000000, 100000000, 1234567890,
                    -10000000, -15000000, -1234567890}
RawAmounts == (-MaxRaw..MaxRaw) \cup ScenarioAmounts

\* the decimals of a token (10 ^ 18 is past the integers of the model)
AmountDecimals == {0, 6, 7}

\* the words of the answers to total_supply
HighWords == {0}
LowWords == {0, 1, 15000000, 100000000}

NoText == <<>>

\* an amount before it is formatted: the answer of a simulation, or a raw
\* amount held by the page
AmountInputs ==
  {[pc |-> "simulated", hi |-> hi, lo |-> lo, raw |-> 0,
    decimals |-> d, text |-> NoText] :
     hi \in HighWords, lo \in LowWords, d \in AmountDecimals}
  \cup
  {[pc |-> "raw", hi |-> 0, lo |-> 0, raw |-> raw,
    decimals |-> d, text |-> NoText] :
     raw \in RawAmounts, d \in AmountDecimals}

InitAmount == amount \in AmountInputs

\* stellar.ts:139-141: rawSupply = decodeI128(supplyVal);
\* totalSupply = formatTokenAmount(rawSupply, decimals)
DecodeTotalSupply ==
  /\ amount.pc = "simulated"
  /\ amount' = [amount EXCEPT
                  !.pc = "formatted",
                  !.raw = BigInt(decodeI128(amount.hi, amount.lo)),
                  !.text = TotalSupplyOf(amount.hi, amount.lo,
                                         amount.decimals)]
  /\ UNCHANGED <<panelVars, dashVars, holderVars, vestingVars, netVars,
                 processEnv, truncation, adminVars, feedVars>>

\* VestingProgress.tsx:239-279: formatTokenAmount(raw, decimals) of an amount
\* of the schedule
FormatAmount ==
  /\ amount.pc = "raw"
  /\ amount' = [amount EXCEPT
                  !.pc = "formatted",
                  !.text = formatTokenAmount(amount.raw, amount.decimals)]
  /\ UNCHANGED <<panelVars, dashVars, holderVars, vestingVars, netVars,
                 processEnv, truncation, adminVars, feedVars>>

\* String.prototype.slice(start, end) with 0 <= start <= end
slice(str, start, end) ==
  SubSeq(str, start + 1, IF end < Len(str) THEN end ELSE Len(str))

\* String.prototype.slice(start): a negative start counts from the end, and
\* -0 is 0
sliceFrom(str, start) ==
  LET from == IF start < 0
              THEN (IF Len(str) + start > 0 THEN Len(str) + start ELSE 0)
              ELSE (IF start < Len(str) THEN start ELSE Len(str))
  IN SubSeq(str, from + 1, Len(str))

\* stellar.ts:284-287: truncateAddress
truncateAddress(addr, chars) ==
  IF Len(addr) <= chars * 2 + 3 THEN addr
  ELSE slice(addr, 0, chars + 1) \o <<".", ".", ".">> \o
       sliceFrom(addr, -chars)

\* the characters of the addresses of the model: G first, then letters that
\* tell the positions apart
AddressLetters == <<"A", "B", "C", "D", "E", "F", "H", "I", "J", "K">>
Address(n) ==
  [i \in 1..n |-> IF i = 1 THEN "G"
                  ELSE AddressLetters[((i - 2) % Len(AddressLetters)) + 1]]

\* "G" + "A" * 55
ScenarioAddress == [i \in 1..56 |-> IF i = 1 THEN "G" ELSE "A"]

Addresses == {Address(n) : n \in 0..MaxAddress} \cup {ScenarioAddress}

\* the chars the callers pass: 4 by default, 5, 6 and 8
CharsArgs == (0..MaxChars) \cup {8}

InitTruncation ==
  truncation \in {[pc |-> "called", addr |-> addr, chars |-> chars,
                   result |-> NoText] :
                    addr \in Addresses, chars \in CharsArgs}

TruncateAddress ==
  /\ truncation.pc = "called"
  /\ truncation' = [truncation EXCEPT
                      !.pc = "returned",
                      !.result = truncateAddress(truncation.addr,
                                                 truncation.chars)]
  /\ UNCHANGED <<panelVars, dashVars, holderVars, vestingVars, netVars,
                 processEnv, amount, adminVars, feedVars>>

\* ------------------------------------------------------------------------
\* lib/stellar.ts: fetchTopHolders
\* ------------------------------------------------------------------------
\* what an if takes for true of a string argument
Truthy(str) == str \notin {Undefined, ""}

\* the query made whenever a code is given
HolderQueryAttempted_SymbolOnly(symbol, issuer) == Truthy(symbol)

\* stellar.ts:177: if (_symbol && _issuer)
HolderQueryAttempted(symbol, issuer) == Truthy(symbol) /\ Truthy(issuer)

\* the asset code and issuer a caller may pass
SymbolArgs == {Undefined, "", "TKN"}
IssuerArgs == {Undefined, "", "GISS"}

\* balances of the asset in stroops: the balance strings of Horizon have
\* seven decimals, Math.round(parseFloat(balance) * 1e7) is their integer
HolderBalances == 0..MaxBalance

RECURSIVE SeqsUpTo(_, _)
SeqsUpTo(S, n) ==
  IF n = 0 THEN {<<>>}
  ELSE LET shorter == SeqsUpTo(S, n - 1)
       IN shorter \cup {Append(sq, x) : sq \in shorter, x \in S}

\* the pages of account records .limit(limit).call() may return, each record
\* as the balance it holds of the asset
HolderPages == SeqsUpTo(HolderBalances, MaxHolders)

RECURSIVE SumSeq(_)
SumSeq(sq) == IF sq = <<>> THEN 0 ELSE Head(sq) + SumSeq(Tail(sq))

\* the share rounded to the nearest hundredth
ShareOf_Rounded(rawBalance, total) ==
  IF total > 0 THEN (rawBalance * 10000 + total \div 2) \div total ELSE 0

\* stellar.ts:206-209: sharePercent, held in hundredths of a percent (the
\* code divides the integer by 100)
ShareOf(rawBalance, total) ==
  IF total > 0 THEN BigIntDiv(rawBalance * 10000, total) ELSE 0

\* stellar.ts:187-210: the holders computed from a page of records
HoldersOf(page) ==
  LET total == SumSeq(page)
  IN [i \in 1..Len(page) |->
        [address |-> i,
         rawBalance |-> page[i],
         sharePercent |-> ShareOf(page[i], total)]]

\* a call of fetchTopHolders that has not started
IdleTopHolders(symbol, issuer) ==
  [pc |-> "idle",
   symbol |-> symbol,
   issuer |-> issuer,
   queries |-> 0,         \* historical queries attempted
   answer |-> Null,       \* Null, "records" or "failed"
   page |-> <<>>,         \* the records returned
   outcome |-> Null,      \* Null, "returned" or "threw"
   result |-> <<>>]       \* the list returned

InitHolders == topHolders \in {IdleTopHolders(sym, iss) :
                                 sym \in SymbolArgs, iss \in IssuerArgs}

\* fetchTopHolders up to its await, or to its return when it makes no query
CallFetchTopHolders ==
  /\ topHolders.pc = "idle"
  /\ topHolders' =
       IF HolderQueryAttempted(topHolders.symbol, topHolders.issuer)
       THEN [topHolders EXCEPT !.pc = "query", !.queries = @ + 1]
       ELSE [topHolders EXCEPT !.pc = "done", !.outcome = "returned",
                               !.result = <<>>]
  /\ UNCHANGED <<otherVars, panelVars, dashVars, vestingVars, netVars>>

\* Horizon answers the query with a page of records, or the query fails
HorizonResponse(ok, page) ==
  /\ topHolders.pc = "query"
  /\ ~ok => page = <<>>
  /\ topHolders' =
       IF ok
       THEN [topHolders EXCEPT !.pc = "done", !.answer = "records",
                               !.page = page, !.outcome = "returned",
                               !.result = HoldersOf(page)]
       ELSE [topHolders EXCEPT !.pc = "done", !.answer = "failed",
                               !.outcome = "returned", !.result = <<>>]
  /\ UNCHANGED <<otherVars, panelVars, dashVars, vestingVars, netVars>>

\* ------------------------------------------------------------------------
\* TokenDashboard: loadData, fetchTokenInfo, fetchSupplyBreakdown
\* ------------------------------------------------------------------------
\* the contract methods the dashboard simulates
Methods == {"name", "symbol", "decimals", "admin", "total_supply",
            "max_supply"}

\* stellar.ts:120-125: the four simulations of Promise.all
MetadataMethods == {"name", "symbol", "decimals", "admin"}

\* all of them rejecting the fetch
Required_All(m) == TRUE

\* stellar.ts:121-124: the simulations of Promise.all without a catch
Required(m) == m \in {"name", "symbol", "decimals"}

\* what a method of the contract returns, decoded (decodeString, decodeU32,
\* decodeAddress, decodeI128); a contract answers with a value of the type
\* its interface declares
Decoded(m) ==
  CASE m = "name" -> "Token"
    [] m = "symbol" -> "TKN"
    [] m = "decimals" -> 7
    [] m = "admin" -> <<"G", "A", "D", "M", "I", "N">>
    [] m = "total_supply" -> 15000000
    [] m = "max_supply" -> 20000000

\* stellar.ts:72 / 76: the error simulateCall throws for method m
SimulationError(m) == <<"simulation", m>>

\* stellar.ts:360
BreakdownError == <<"Failed to fetch supply breakdown">>

NoResults == [m \in Methods |-> Null]

\* a loadData run that has not started
IdleLoad ==
  [pc |-> "idle",          \* the await the run is suspended at
   pending |-> {},         \* simulations of Promise.all not yet answered
   results |-> NoResults,  \* how the simulations of fetchTokenInfo ended
   info |-> Null,          \* fetchTokenInfo: Null, "returned" or "threw"
   infoError |-> Null,     \* the error it threw
   breakdownTotal |-> Null] \* fetchSupplyBreakdown: its total_supply answer

\* useState<TokenInfo | null>(null)
NoTokenInfo ==
  [name |-> Null, symbol |-> Null, decimals |-> 0, totalSupply |-> <<>>,
   circulatingSupply |-> <<>>, admin |-> <<>>]

\* useState<SupplyBreakdown | null>(null)
NoBreakdown == [circulating |-> 0, locked |-> 0, burned |-> 0, total |-> -1]

\* the dashboard after construction: useState(true) for loading
InitDash ==
  /\ token \in SUBSET Methods
  /\ tokenInfo = NoTokenInfo
  /\ holders = <<>>
  /\ supplyBreakdown = NoBreakdown
  /\ dashLoading = TRUE
  /\ dashError = Null
  /\ load = IdleLoad

\* TokenDashboard.tsx:282-286: what the dashboard renders
DashView ==
  IF dashLoading THEN "loading"
  ELSE IF dashError # Null THEN "error"
  ELSE IF tokenInfo = NoTokenInfo THEN "blank"
  ELSE "data"

\* loadData up to its first await: the mount effect, or Retry of the error
\* state
LoadData ==
  /\ \/ load.pc = "idle"
     \/ load.pc = "done" /\ DashView = "error"
  /\ dashLoading' = TRUE
  /\ dashError' = Null
  /\ load' = [IdleLoad EXCEPT !.pc = "metadata",
                              !.pending = MetadataMethods]
  /\ UNCHANGED <<token, tokenInfo, holders, supplyBreakdown>>
  /\ UNCHANGED <<otherVars, panelVars, holderVars, vestingVars, netVars>>

\* loadData, catch and finally
LoadFailed(l, err) ==
  /\ load' = [l EXCEPT !.pc = "done", !.pending = {}]
  /\ dashError' = err
  /\ dashLoading' = FALSE

\* one of the simulations of Promise.all is answered
MetadataResponse(m, ok) ==
  /\ load.pc = "metadata" /\ m \in load.pending
  /\ ok => m \in token
  /\ LET l == [load EXCEPT !.pending = @ \ {m},
                           !.results[m] = IF ok THEN "ok" ELSE "failed"]
     IN IF ~ok /\ Required(m)
        THEN LoadFailed([l EXCEPT !.info = "threw",
                                  !.infoError = SimulationError(m)],
                        SimulationError(m))
        ELSE /\ load' = IF l.pending = {}
                        THEN [l EXCEPT !.pc = "total_supply"]
                        ELSE l
             /\ UNCHANGED <<dashError, dashLoading>>
  /\ UNCHANGED <<token, tokenInfo, holders, supplyBreakdown>>
  /\ UNCHANGED <<otherVars, panelVars, holderVars, vestingVars, netVars>>

\* stellar.ts:131-153: the TokenInfo fetchTokenInfo returns
TokenInfoOf(results, supplyOk) ==
  LET decimals == Decoded("decimals")
      totalSupply == IF supplyOk
                     THEN formatTokenAmount(Decoded("total_supply"),
                                            decimals)
                     ELSE Sentinel
  IN [name |-> Decoded("name"),
      symbol |-> Decoded("symbol"),
      decimals |-> decimals,
      totalSupply |-> totalSupply,
      circulatingSupply |-> totalSupply,
      admin |-> IF results["admin"] = "ok" THEN Decoded("admin")
                ELSE Sentinel]

\* the total_supply simulation of fetchTokenInfo is answered: fetchTokenInfo
\* returns, fetchTopHolders(contractId), called without a code and an issuer,
\* returns the empty list without a query, and fetchSupplyBreakdown requests
\* its total_supply simulation
TotalSupplyResponse(ok) ==
  /\ load.pc = "total_supply"
  /\ ok => "total_supply" \in token
  /\ load' = [load EXCEPT
                !.pc = "breakdown_total",
                !.results["total_supply"] = IF ok THEN "ok" ELSE "failed",
                !.info = "returned"]
  /\ tokenInfo' = TokenInfoOf(load.results, ok)
  /\ holders' = IF HolderQueryAttempted(Undefined, Undefined)
                THEN HoldersOf(<<>>) ELSE <<>>
  /\ UNCHANGED <<token, supplyBreakdown, dashLoading, dashError>>
  /\ UNCHANGED <<otherVars, panelVars, holderVars, vestingVars, netVars>>

\* the total_supply simulation of fetchSupplyBreakdown is answered
BreakdownTotalResponse(ok) ==
  /\ load.pc = "breakdown_total"
  /\ ok => "total_supply" \in token
  /\ IF ok
     THEN /\ load' = [load EXCEPT !.pc = "breakdown_max",
                                  !.breakdownTotal = "ok"]
          /\ UNCHANGED <<dashError, dashLoading>>
     ELSE LoadFailed([load EXCEPT !.breakdownTotal = "failed"],
                     BreakdownError)
  /\ UNCHANGED <<token, tokenInfo, holders, supplyBreakdown>>
  /\ UNCHANGED <<otherVars, panelVars, holderVars, vestingVars, netVars>>

\* stellar.ts:350-357: the breakdown for a total supply, nothing locked or
\* burned
BreakdownOf(totalSupply) ==
  [circulating |-> totalSupply - 0 - 0,
   locked |-> 0,
   burned |-> 0,
   total |-> totalSupply]

\* the max_supply simulation is answered; its answer is not used
BreakdownMaxResponse(ok) ==
  /\ load.pc = "breakdown_max"
  /\ ok => "max_supply" \in token
  /\ load' = [load EXCEPT !.pc = "done"]
  /\ supplyBreakdown' = BreakdownOf(Decoded("total_supply"))
  /\ dashLoading' = FALSE
  /\ UNCHANGED <<token, tokenInfo, holders, dashError>>
  /\ UNCHANGED <<otherVars, panelVars, holderVars, vestingVars, netVars>>

\* ------------------------------------------------------------------------
\* VestingDisplay: the vesting formula and the timeline cursor
\* ------------------------------------------------------------------------
\* the schedule of the end-to-end scenario
ScenarioTotal == 1000
ScenarioLedgers == {99, 100, 150, 199, 200, 201}

Totals == (0..MaxTotal) \cup {ScenarioTotal}
Ledgers == (0..MaxLedger) \cup ScenarioLedgers

\* the first branch never taken
BeforeCliff_Never(currentLedger, cliffLedger) == FALSE

\* VestingProgress.tsx:171
BeforeCliff(currentLedger, cliffLedger) == currentLedger < cliffLedger

\* the end ledger itself left to the linear branch
AfterEnd_Strict(currentLedger, endLedger) == currentLedger > endLedger

\* VestingProgress.tsx:173
AfterEnd(currentLedger, endLedger) == currentLedger >= endLedger

\* VestingProgress.tsx:175: the else branch
LinearBranch(cliffLedger, endLedger, currentLedger) ==
  /\ ~BeforeCliff(currentLedger, cliffLedger)
  /\ ~AfterEnd(currentLedger, endLedger)

\* the ledgers still to come taken for the ledgers elapsed
Elapsed_Remaining(cliffLedger, endLedger, currentLedger) ==
  endLedger - currentLedger

\* VestingProgress.tsx:176
Elapsed(cliffLedger, endLedger, currentLedger) == currentLedger - cliffLedger

\* VestingProgress.tsx:177
Duration(cliffLedger, endLedger) == endLedger - cliffLedger

\* the division made before the multiplication
LinearVested_DivideFirst(totalBig, elapsed, duration) ==
  BigIntDiv(totalBig, duration) * elapsed

\* VestingProgress.tsx:178
LinearVested(totalBig, elapsed, duration) ==
  BigIntDiv(totalBig * elapsed, duration)

\* VestingProgress.tsx:178 divides by duration: a BigInt division by zero
\* throws a RangeError
DivisionByZero(cliffLedger, endLedger, currentLedger) ==
  /\ LinearBranch(cliffLedger, endLedger, currentLedger)
  /\ Duration(cliffLedger, endLedger) = 0

\* VestingProgress.tsx:170-179; 0 stands for no value where the division
\* throws
vestedBig(totalBig, cliffLedger, endLedger, currentLedger) ==
  IF BeforeCliff(currentLedger, cliffLedger) THEN 0
  ELSE IF AfterEnd(currentLedger, endLedger) THEN totalBig
  ELSE IF Duration(cliffLedger, endLedger) = 0 THEN 0
  ELSE LinearVested(totalBig,
                    Elapsed(cliffLedger, endLedger, currentLedger),
                    Duration(cliffLedger, endLedger))

\* VestingProgress.tsx:181-184, held in hundredths of a percent (the code
\* divides the integer by 100)
vestedPercent(vested, totalBig) ==
  IF totalBig > 0 THEN BigIntDiv(vested * 10000, totalBig) ELSE 0

\* VestingProgress.tsx:191-197: the cursor position, a floating-point
\* number held as the fraction num / den
timelinePos(cliffLedger, endLedger, currentLedger) ==
  LET range == endLedger - cliffLedger
  IN IF currentLedger >= endLedger THEN [num |-> 100, den |-> 1]
     ELSE IF currentLedger > cliffLedger /\ range > 0
     THEN [num |-> (currentLedger - cliffLedger) * 100, den |-> range]
     ELSE [num |-> 0, den |-> 1]

NotRendered ==
  [renders |-> 0,        \* renders of the display so far
   raised |-> FALSE,     \* the last render threw
   vestedBig |-> 0,
   vestedPercent |-> 0,
   timelinePos |-> [num |-> 0, den |-> 1]]

\* what render number n of VestingDisplay computes from its props v
Rendered(v, n) ==
  LET raised == DivisionByZero(v.cliffLedger, v.endLedger, v.currentLedger)
      vested == vestedBig(v.totalAmount, v.cliffLedger, v.endLedger,
                          v.currentLedger)
  IN IF raised THEN [NotRendered EXCEPT !.renders = n, !.raised = TRUE]
     ELSE [renders |-> n,
           raised |-> FALSE,
           vestedBig |-> vested,
           vestedPercent |-> vestedPercent(vested, v.totalAmount),
           timelinePos |-> timelinePos(v.cliffLedger, v.endLedger,
                                       v.currentLedger)]

\* the props of a VestingDisplay about to render: a schedule the vesting
\* contract returned and the ledger the ledger service reported
InitVesting ==
  /\ vesting \in [totalAmount : Totals, cliffLedger : Ledgers,
                   endLedger : Ledgers, currentLedger : Ledgers]
  /\ vestingView = NotRendered

\* the first render of VestingDisplay
RenderVestingDisplay ==
  /\ vestingView.renders = 0
  /\ vestingView' = Rendered(vesting, 1)
  /\ UNCHANGED vesting
  /\ UNCHANGED <<otherVars, panelVars, dashVars, holderVars, netVars>>

\* VestingProgress.tsx:439: setCurrentLedger(ledger) of a later lookup, and
\* the render that follows
SetCurrentLedger(ledger) ==
  /\ vestingView.renders \in 1..(MaxRenders - 1) /\ ~vestingView.raised
  /\ ledger # vesting.currentLedger
  /\ vesting' = [vesting EXCEPT !.currentLedger = ledger]
  /\ vestingView' = Rendered(vesting', vestingView.renders + 1)
  /\ UNCHANGED <<otherVars, panelVars, dashVars, holderVars, netVars>>

\* ------------------------------------------------------------------------
\* NetworkProvider, useSoroban and the configuration of lib/stellar.ts
\* ------------------------------------------------------------------------
\* stellar.ts:6-12, 45: HORIZON_URL, SOROBAN_RPC_URL, NETWORK_PASSPHRASE and
\* the rpc server, set when the module is loaded from the environment of the
\* build, testnet by default
ModuleConfigs == {NETWORKS(n) : n \in NetworkTypes}

\* the operations useSoroban returns
HookOperations == {"fetchTokenInfo", "fetchTopHolders", "fetchCurrentLedger",
                   "fetchVestingSchedule"}

\* the configuration a function of lib/stellar.ts works with when it is
\* called with config as an additional argument: its parameter list has no
\* place for it
ConfigUsed(config) == moduleConfig

InitNet ==
  /\ network = "testnet"
  /\ moduleConfig \in ModuleConfigs
  /\ requests = <<>>

\* NetworkProvider.tsx:35-38: setNetwork(n); the mount effect does the same
\* with the network saved in localStorage
SetNetwork(n) ==
  /\ n # network
  /\ network' = n
  /\ UNCHANGED <<moduleConfig, requests>>
  /\ UNCHANGED <<otherVars, panelVars, dashVars, holderVars, vestingVars>>

\* useSoroban.ts:15-35: an operation of the hook is called with the
\* networkConfig of the render
HookCall(operation) ==
  /\ Len(requests) < MaxRequests
  /\ requests' = Append(requests,
                        [operation |-> operation,
                         selected |-> network,
                         config |-> ConfigUsed(networkConfig)])
  /\ UNCHANGED <<network, moduleConfig>>
  /\ UNCHANGED <<otherVars, panelVars, dashVars, holderVars, vestingVars>>

\* ------------------------------------------------------------------------
\* AdminPanel
\* ------------------------------------------------------------------------
\* the action handleAction is called with
AdminActions == {"mint", "burn", "transfer"}

\* AdminPanel: loading, lastTxHash, success and showTransferConfirm after
\* construction
IdleAdmin == [loading |-> Null, lastTxHash |-> Null, success |-> Null,
              showTransferConfirm |-> FALSE]

InitAdmin ==
  /\ adminPanel = IdleAdmin
  /\ adminRuns = <<>>

\* Button: disabled, or showing its spinner (isLoading)
ButtonEnabled(disabled, isLoading) == ~disabled /\ ~isLoading

\* disabled={!!loading} of Mint Tokens, Burn Tokens, Transfer Control and
\* Cancel
LoadingDisables == adminPanel.loading # Null

\* the run of handleAction without the one at position i, which has ended
RunsWithout(i) ==
  SubSeq(adminRuns, 1, i - 1) \o SubSeq(adminRuns, i + 1, Len(adminRuns))

\* handleAction, lines 73-98: from the call to the await of getAccount;
\* built is FALSE when encoding the arguments throws, and the catch and the
\* finally run before anything is awaited
handleAction(action, built) ==
  /\ Len(adminRuns) < MaxActions
  /\ IF publicKey = Null
     THEN UNCHANGED adminVars
     ELSE IF built
          THEN /\ adminPanel' = [adminPanel EXCEPT
                                   !.loading = action,
                                   !.success = Null,
                                   !.lastTxHash = Null]
               /\ adminRuns' = Append(adminRuns,
                                      [action |-> action,
                                       pc |-> "getAccount"])
          ELSE /\ adminPanel' = [adminPanel EXCEPT
                                   !.loading = Null,
                                   !.success = Null,
                                   !.lastTxHash = Null]
               /\ UNCHANGED adminRuns
  /\ UNCHANGED <<panelVars, dashVars, holderVars, vestingVars, netVars,
                 processEnv, textVars, feedVars>>

\* lines 166, 182-187: the mint form is submitted with valid data
SubmitMint ==
  /\ ButtonEnabled(LoadingDisables, adminPanel.loading = "mint")
  /\ \E built \in BOOLEAN : handleAction("mint", built)

\* lines 203, 219-224: the burn form is submitted with valid data
SubmitBurn ==
  /\ ButtonEnabled(LoadingDisables, adminPanel.loading = "burn")
  /\ \E built \in BOOLEAN : handleAction("burn", built)

\* lines 242, 254-261: Transfer Control, with a valid new admin
ClickTransferControl ==
  /\ ~adminPanel.showTransferConfirm
  /\ ButtonEnabled(LoadingDisables, FALSE)
  /\ adminPanel' = [adminPanel EXCEPT !.showTransferConfirm = TRUE]
  /\ UNCHANGED adminRuns
  /\ UNCHANGED <<panelVars, dashVars, holderVars, vestingVars, netVars,
                 processEnv, textVars, feedVars>>

\* lines 271-279: Cancel of the final warning
CancelTransfer ==
  /\ adminPanel.showTransferConfirm
  /\ ButtonEnabled(LoadingDisables, FALSE)
  /\ adminPanel' = [adminPanel EXCEPT !.showTransferConfirm = FALSE]
  /\ UNCHANGED adminRuns
  /\ UNCHANGED <<panelVars, dashVars, holderVars, vestingVars, netVars,
                 processEnv, textVars, feedVars>>

\* lines 280-287: I Understand, which has isLoading and no disabled
ClickIUnderstand ==
  /\ adminPanel.showTransferConfirm
  /\ ButtonEnabled(FALSE, adminPanel.loading = "transfer")
  /\ \E built \in BOOLEAN : handleAction("transfer", built)

\* lines 129-134: catch and finally of the run at position i
ActionFailed(i) ==
  /\ adminPanel' = [adminPanel EXCEPT !.loading = Null]
  /\ adminRuns' = RunsWithout(i)

\* lines 98-114: getAccount answers; the transaction is built and handed to
\* signTransaction
AccountAnswer(i, ok) ==
  /\ i \in 1..Len(adminRuns)
  /\ adminRuns[i].pc = "getAccount"
  /\ IF ok
     THEN /\ adminRuns' = [adminRuns EXCEPT ![i].pc = "signTransaction"]
          /\ UNCHANGED adminPanel
     ELSE ActionFailed(i)
  /\ UNCHANGED <<panelVars, dashVars, holderVars, vestingVars, netVars,
                 processEnv, textVars, feedVars>>

\* lines 114-117: the signing authority answers; the mocked submission
\* waits two seconds
SignAnswer(i, ok) ==
  /\ i \in 1..Len(adminRuns)
  /\ adminRuns[i].pc = "signTransaction"
  /\ IF ok
     THEN /\ adminRuns' = [adminRuns EXCEPT ![i].pc = "timeout"]
          /\ UNCHANGED adminPanel
     ELSE ActionFailed(i)
  /\ UNCHANGED <<panelVars, dashVars, holderVars, vestingVars, netVars,
                 processEnv, textVars, feedVars>>

\* lines 117-134: the two seconds are over
MockSubmitted(i, mockHash) ==
  /\ i \in 1..Len(adminRuns)
  /\ adminRuns[i].pc = "timeout"
  /\ adminPanel' =
       [adminPanel EXCEPT
          !.lastTxHash = mockHash,
          !.success = adminRuns[i].action,
          !.showTransferConfirm =
             IF adminRuns[i].action = "transfer"
             THEN FALSE ELSE adminPanel.showTransferConfirm,
          !.loading = Null]
  /\ adminRuns' = RunsWithout(i)
  /\ UNCHANGED <<panelVars, dashVars, holderVars, vestingVars, netVars,
                 processEnv, textVars, feedVars>>

\* ------------------------------------------------------------------------
\* ActivityFeed
\* ------------------------------------------------------------------------
\* the limit performFetch passes to fetchAccountOperations
limit == 10

\* the accounts the feed is rendered for: an account is held as the number
\* of pages of its history, in the order Horizon serves them; a page stands
\* for its records
Accounts == 1..MaxPages

\* null and undefined, for a cursor
NoCursor == 0

\* fetchAccountOperations(accountId, cursor, limit): the page at the cursor,
\* the first one without a cursor, and the cursor of the page after it or
\* null when there is none; a cursor is held as the number of the page it
\* leads to
fetchAccountOperations(accountId, cursor) ==
  LET page == IF cursor = NoCursor THEN 1 ELSE cursor
  IN [records |-> <<page>>,
      nextCursor |-> IF page < accountId THEN page + 1 ELSE NoCursor]

\* operations.length
OperationsLength(operations) == limit * Len(operations)

\* lines 6-10, 56-58: the state after construction with the fetch of the
\* mount effect under way
InitFeed ==
  /\ feed \in {[accountId |-> accountId,
                 operations |-> <<>>, loading |-> TRUE,
                 loadingMore |-> FALSE, nextCursor |-> NoCursor,
                 error |-> Null] : accountId \in Accounts}
  /\ fetches = <<[isLoadMore |-> FALSE, isRefresh |-> FALSE,
                  fetchCursor |-> NoCursor]>>

\* lines 71-89, 168: the table and its Load More button are rendered
LoadMoreShown ==
  /\ ~feed.loading
  /\ feed.error = Null
  /\ feed.operations # <<>>
  /\ feed.nextCursor # NoCursor

\* lines 16-30: performFetch up to its await
performFetch(isLoadMore, isRefresh) ==
  LET cursorToUse == IF isLoadMore THEN feed.nextCursor ELSE NoCursor
      fetchCursor == IF isRefresh THEN NoCursor ELSE cursorToUse
  IN /\ feed' = [feed EXCEPT
                   !.loading = IF ~isLoadMore /\ ~isRefresh
                               THEN TRUE ELSE feed.loading,
                   !.loadingMore = IF isLoadMore
                                   THEN TRUE ELSE feed.loadingMore]
     /\ fetches' = Append(fetches, [isLoadMore |-> isLoadMore,
                                    isRefresh |-> isRefresh,
                                    fetchCursor |-> fetchCursor])

\* lines 170-172: Load More
ClickLoadMore ==
  /\ LoadMoreShown
  /\ ~feed.loadingMore
  /\ Len(fetches) < MaxFetches
  /\ performFetch(TRUE, FALSE)
  /\ UNCHANGED <<panelVars, dashVars, holderVars, vestingVars, netVars,
                 processEnv, textVars, adminVars>>

\* line 64: the test of the interval callback
AutoRefreshDue ==
  feed.nextCursor = NoCursor \/ OperationsLength(feed.operations) <= 10

\* lines 61-69: the interval fires
IntervalTick ==
  /\ Len(fetches) < MaxFetches
  /\ IF AutoRefreshDue
     THEN performFetch(FALSE, TRUE)
     ELSE UNCHANGED feedVars
  /\ UNCHANGED <<panelVars, dashVars, holderVars, vestingVars, netVars,
                 processEnv, textVars, adminVars>>

FetchesWithout(i) ==
  SubSeq(fetches, 1, i - 1) \o SubSeq(fetches, i + 1, Len(fetches))

\* lines 26-52: fetchAccountOperations answers the run at position i, or
\* fails
FetchResponse(i, ok) ==
  /\ i \in 1..Len(fetches)
  /\ LET f == fetches[i]
         answer == fetchAccountOperations(feed.accountId, f.fetchCursor)
         initial == ~f.isLoadMore /\ ~f.isRefresh
     IN feed' =
          [feed EXCEPT
             !.operations =
                IF ~ok THEN feed.operations
                ELSE IF f.isLoadMore
                     THEN feed.operations \o answer.records
                     ELSE answer.records,
             !.nextCursor =
                IF ok /\ (~f.isRefresh \/ f.isLoadMore)
                THEN answer.nextCursor ELSE feed.nextCursor,
             !.error =
                IF ok THEN Null
                ELSE IF ~f.isRefresh THEN "Failed to fetch activity feed."
                     ELSE feed.error,
             !.loading = IF initial THEN FALSE ELSE feed.loading,
             !.loadingMore = IF f.isLoadMore
                             THEN FALSE ELSE feed.loadingMore]
  /\ fetches' = FetchesWithout(i)
  /\ UNCHANGED <<panelVars, dashVars, holderVars, vestingVars, netVars,
                 processEnv, textVars, adminVars>>

\* ------------------------------------------------------------------------
\* Specifications
\* ------------------------------------------------------------------------
\* the user types into the lookup form while nothing is awaited
FormIdle == lookups = <<>> /\ InFlight = {} /\ timers = <<>>

TypeVestingContract ==
  \E v \in ContractInputs : FormIdle /\ SetVestingContract(v)

TypeRecipient ==
  \E v \in RecipientInputs : FormIdle /\ SetRecipient(v)

\* the id of another vesting contract typed into the form
OtherContract == "CVEST2"

TypeOtherContract == FormIdle /\ SetVestingContract(OtherContract)

\* the dashboard after a load that found every method
DashLoaded ==
  /\ token = Methods
  /\ tokenInfo = TokenInfoOf([m \in Methods |-> "ok"], TRUE)
  /\ holders = <<>>
  /\ supplyBreakdown = BreakdownOf(Decoded("total_supply"))
  /\ dashLoading = FALSE
  /\ dashError = Null
  /\ load = [IdleLoad EXCEPT
               !.pc = "done",
               !.results = [m \in Methods |->
                              IF m = "max_supply" THEN Null ELSE "ok"],
               !.info = "returned",
               !.breakdownTotal = "ok"]

\* fetchTopHolders(contractId) not yet called, and after it has returned
HoldersIdle == topHolders = IdleTopHolders(Undefined, Undefined)
HoldersDone ==
  topHolders = [IdleTopHolders(Undefined, Undefined) EXCEPT
                  !.pc = "done", !.outcome = "returned"]

\* no schedule has been looked up
NoVestingDisplay ==
  /\ vesting = [totalAmount |-> 0, cliffLedger |-> 0, endLedger |-> 0,
                currentLedger |-> 0]
  /\ vestingView = NotRendered

\* the testnet build with the provider's initial network, nothing requested
\* through the hook
NetDefault ==
  /\ network = "testnet"
  /\ moduleConfig = NETWORKS("testnet")
  /\ requests = <<>>

\* the build without NEXT_PUBLIC_NETWORK_PASSPHRASE
EnvDefault == processEnv = Undefined

\* a build with any NEXT_PUBLIC_NETWORK_PASSPHRASE; the passphrase of the
\* module's configuration is the one read from it
InitEnv ==
  /\ processEnv \in EnvPassphrases
  /\ moduleConfig.passphrase = NETWORK_PASSPHRASE

\* no amount and no address on their way to the page
AmountAtRest ==
  amount = [pc |-> "formatted", hi |-> 0, lo |-> 0, raw |-> 0,
            decimals |-> 7, text |-> <<"0">>]
TruncationAtRest ==
  truncation = [pc |-> "returned", addr |-> <<>>, chars |-> 4,
                result |-> <<>>]
TextAtRest == AmountAtRest /\ TruncationAtRest

\* the admin console with nothing started
AdminAtRest == InitAdmin

\* the activity feed with its first page loaded
FeedAtRest ==
  /\ feed = [accountId |-> 1, operations |-> <<1>>, loading |-> FALSE,
             loadingMore |-> FALSE,
             nextCursor |-> fetchAccountOperations(1, NoCursor).nextCursor,
             error |-> Null]
  /\ fetches = <<>>

\* everything beside the vesting panel, the dashboard, the holders, the
\* vesting display and the network provider
OthersAtRest == EnvDefault /\ TextAtRest /\ AdminAtRest /\ FeedAtRest

\* the vesting panel of a dashboard that has loaded
Init ==
  /\ InitPanel /\ DashLoaded /\ HoldersDone /\ NoVestingDisplay /\ NetDefault
  /\ OthersAtRest

\* every run the page can hold; the ledger service finds a transaction after
\* at most MaxNotFound polls
Next ==
  \/ Connect
  \/ Disconnect
  \/ TypeVestingContract
  \/ TypeRecipient
  \/ LookUpSchedule
  \/ \E i \in 1..Len(lookups), ok \in BOOLEAN : LookupResponse(i, ok)
  \/ RefreshTimer
  \/ ClickRevokeSchedule
  \/ DialogCancel
  \/ CloseToast
  \/ HandleRevoke(Ops)
  \/ \E o \in Ops, ok \in BOOLEAN : LoadAccountResponse(o, ok)
  \/ \E o \in Ops, k \in SimKinds : SimulateResponse(o, k)
  \/ \E o \in Ops, err \in BOOLEAN : SignResponse(o, err)
  \/ \E o \in Ops, st \in SendStatuses, h \in Hashes \cup {NoHash},
        p \in Payloads \cup {NoPayload} : SendResponse(o, st, h, p)
  \/ \E o \in Ops : PollAnswer(o, MaxNotFound)
  \/ \E o \in Ops : PollTimer(o)

Spec == Init /\ [][Next]_vars

\* one run at a time; the ledger service answers NOT_FOUND as often as it
\* likes
NextPoll ==
  \/ Connect
  \/ Disconnect
  \/ TypeVestingContract
  \/ TypeRecipient
  \/ LookUpSchedule
  \/ \E i \in 1..Len(lookups), ok \in BOOLEAN : LookupResponse(i, ok)
  \/ RefreshTimer
  \/ ClickRevokeSchedule
  \/ DialogCancel
  \/ CloseToast
  \/ HandleRevoke({1})
  \/ \E ok \in BOOLEAN : LoadAccountResponse(1, ok)
  \/ \E k \in SimKinds : SimulateResponse(1, k)
  \/ \E err \in BOOLEAN : SignResponse(1, err)
  \/ \E st \in SendStatuses, h \in Hashes \cup {NoHash},
        p \in Payloads \cup {NoPayload} : SendResponse(1, st, h, p)
  \/ PollAnswer(1, maxAttempts + 2)
  \/ PollTimer(1)

SpecPoll == Init /\ [][NextPoll]_vars

\* the ledger service answers every poll and the timer of the polling loop
\* fires
SpecPollFair ==
  /\ SpecPoll
  /\ WF_vars(PollAnswer(1, maxAttempts + 2))
  /\ WF_vars(PollTimer(1))

\* the load sequence of the dashboard, for every contract
InitDashboard ==
  /\ InitPanel /\ InitDash /\ HoldersIdle /\ NoVestingDisplay /\ NetDefault
  /\ OthersAtRest

NextDash ==
  \/ LoadData
  \/ \E m \in MetadataMethods, ok \in BOOLEAN : MetadataResponse(m, ok)
  \/ \E ok \in BOOLEAN : TotalSupplyResponse(ok)
  \/ \E ok \in BOOLEAN : BreakdownTotalResponse(ok)
  \/ \E ok \in BOOLEAN : BreakdownMaxResponse(ok)

SpecDash == InitDashboard /\ [][NextDash]_vars

\* one call of fetchTopHolders, for every asset code and issuer and every
\* answer of Horizon
InitTopHolders ==
  /\ InitPanel /\ DashLoaded /\ InitHolders /\ NoVestingDisplay /\ NetDefault
  /\ OthersAtRest

NextHolders ==
  \/ CallFetchTopHolders
  \/ \E ok \in BOOLEAN, page \in HolderPages : HorizonResponse(ok, page)

SpecHolders == InitTopHolders /\ [][NextHolders]_vars

\* the renders of a VestingDisplay, for every schedule and ledger
InitVestingDisplay ==
  /\ InitPanel /\ DashLoaded /\ HoldersDone /\ InitVesting /\ NetDefault
  /\ OthersAtRest

NextVesting ==
  \/ RenderVestingDisplay
  \/ \E ledger \in Ledgers : SetCurrentLedger(ledger)

SpecVesting == InitVestingDisplay /\ [][NextVesting]_vars

\* the calls made through useSoroban while the user switches networks
InitNetwork ==
  /\ InitPanel /\ DashLoaded /\ HoldersDone /\ NoVestingDisplay /\ InitNet
  /\ InitEnv /\ TextAtRest /\ AdminAtRest /\ FeedAtRest

NextNet ==
  \/ \E n \in NetworkTypes : SetNetwork(n)
  \/ \E operation \in HookOperations : HookCall(operation)

SpecNet == InitNetwork /\ [][NextNet]_vars

\* one revoke at a time in every build and on every selected network, with
\* a second contract to type; the ledger service finds a transaction after
\* at most MaxNotFound polls
InitRevoke ==
  /\ InitPanel /\ DashLoaded /\ HoldersDone /\ NoVestingDisplay /\ InitNet
  /\ InitEnv /\ TextAtRest /\ AdminAtRest /\ FeedAtRest

NextRevoke ==
  \/ Connect
  \/ Disconnect
  \/ TypeVestingContract
  \/ TypeOtherContract
  \/ TypeRecipient
  \/ \E n \in NetworkTypes : SetNetwork(n)
  \/ LookUpSchedule
  \/ \E i \in 1..Len(lookups), ok \in BOOLEAN : LookupResponse(i, ok)
  \/ RefreshTimer
  \/ ClickRevokeSchedule
  \/ DialogCancel
  \/ CloseToast
  \/ HandleRevoke({1})
  \/ \E ok \in BOOLEAN : LoadAccountResponse(1, ok)
  \/ \E k \in SimKinds : SimulateResponse(1, k)
  \/ \E err \in BOOLEAN : SignResponse(1, err)
  \/ \E st \in SendStatuses, h \in Hashes \cup {NoHash},
        p \in Payloads \cup {NoPayload} : SendResponse(1, st, h, p)
  \/ PollAnswer(1, MaxNotFound)
  \/ PollTimer(1)

SpecRevoke == InitRevoke /\ [][NextRevoke]_vars

\* the amounts the page formats, one at a time
InitAmounts ==
  /\ InitPanel /\ DashLoaded /\ HoldersDone /\ NoVestingDisplay /\ NetDefault
  /\ EnvDefault /\ AdminAtRest /\ FeedAtRest
  /\ InitAmount /\ TruncationAtRest

NextAmount ==
  \/ DecodeTotalSupply
  \/ FormatAmount

SpecAmount == InitAmounts /\ [][NextAmount]_vars

\* the addresses the page truncates, one at a time
InitAddresses ==
  /\ InitPanel /\ DashLoaded /\ HoldersDone /\ NoVestingDisplay /\ NetDefault
  /\ EnvDefault /\ AdminAtRest /\ FeedAtRest
  /\ AmountAtRest /\ InitTruncation

NextAddress == TruncateAddress

SpecAddress == InitAddresses /\ [][NextAddress]_vars

\* the admin console of a connected or disconnected wallet
InitAdminPanel ==
  /\ InitPanel /\ DashLoaded /\ HoldersDone /\ NoVestingDisplay /\ NetDefault
  /\ EnvDefault /\ TextAtRest /\ InitAdmin /\ FeedAtRest

NextAdmin ==
  \/ Connect
  \/ Disconnect
  \/ SubmitMint
  \/ SubmitBurn
  \/ ClickTransferControl
  \/ CancelTransfer
  \/ ClickIUnderstand
  \/ \E i \in 1..MaxActions, ok \in BOOLEAN : AccountAnswer(i, ok)
  \/ \E i \in 1..MaxActions, ok \in BOOLEAN : SignAnswer(i, ok)
  \/ \E i \in 1..MaxActions, h \in Hashes : MockSubmitted(i, h)

SpecAdmin == InitAdminPanel /\ [][NextAdmin]_vars

\* the activity feed from its mount
InitActivityFeed ==
  /\ InitPanel /\ DashLoaded /\ HoldersDone /\ NoVestingDisplay /\ NetDefault
  /\ EnvDefault /\ TextAtRest /\ AdminAtRest /\ InitFeed

NextFeed ==
  \/ ClickLoadMore
  \/ IntervalTick
  \/ \E i \in 1..MaxFetches, ok \in BOOLEAN : FetchResponse(i, ok)

SpecFeed == InitActivityFeed /\ [][NextFeed]_vars

\* ------------------------------------------------------------------------
\* Properties
\* ------------------------------------------------------------------------
AllNotFound(sq) == \A i \in 1..Len(sq) : sq[i] = "NOT_FOUND"
Front(sq) == SubSeq(sq, 1, Len(sq) - 1)
Last(sq) == sq[Len(sq)]
IsPrefix(a, b) == Len(a) <= Len(b) /\ a = SubSeq(b, 1, Len(a))
Done(o) == ops[o].pc = "done"
Polling(o) == ops[o].pc \in {"firstPoll", "sleep", "loopPoll"}
\* submitTransaction was called in run o
Submitted(o) == ops[o].sendStatus # Null

\* C1: for a submission that was accepted, the number of getTransaction
\* requests issued for the hash never exceeds maxAttempts (30).
C1_PollsWithinBudget ==
  \A o \in Ops : ops[o].polls <= maxAttempts

\* C2: when the ledger service answers NOT_FOUND to every poll, the run does
\* not poll forever: it ends, after at most maxAttempts + 1 polls, and it
\* ends with the TimedOut outcome, never with Failed or Success.
C2_AllNotFoundSafe ==
  \A o \in Ops :
    (ops[o].statuses # <<>> /\ AllNotFound(ops[o].statuses)) =>
      /\ ops[o].outcome \in {Null, "TimedOut"}
      /\ Done(o) => ops[o].outcome = "TimedOut"
      /\ ops[o].polls <= maxAttempts + 1
      /\ (Len(ops[o].statuses) = maxAttempts + 1) => Done(o)

C2_TimesOut ==
  /\ []C2_AllNotFoundSafe
  /\ (Polling(1) ~> Done(1))

C2_Witness ==
  /\ Done(1) /\ ops[1].outcome = "TimedOut"
  /\ Len(ops[1].statuses) = maxAttempts + 1
  /\ AllNotFound(ops[1].statuses)

\* C3: when the first k polls (0 <= k <= 29) are answered NOT_FOUND and the
\* next one SUCCESS, the run ends in Success and returns the hash of the
\* submit response.
C3_SuccessAfterNotFound ==
  \A o \in Ops :
    LET sq == ops[o].statuses IN
      (/\ sq # <<>> /\ Len(sq) <= maxAttempts
       /\ Last(sq) = "SUCCESS" /\ AllNotFound(Front(sq))) =>
        /\ Done(o) /\ ops[o].outcome = "Success"
        /\ ops[o].hash \in Hashes
        /\ ops[o].returned = ops[o].hash

C3_Witness ==
  /\ Done(1) /\ ops[1].outcome = "Success"
  /\ Len(ops[1].statuses) = maxAttempts
  /\ Last(ops[1].statuses) = "SUCCESS"
  /\ AllNotFound(Front(ops[1].statuses))

\* C4: when the submit response has status ERROR, the run goes directly to
\* Failed with the error payload of the service and issues no poll.
C4_SubmitErrorFails ==
  \A o \in Ops :
    (ops[o].sendStatus = "ERROR") =>
      /\ Done(o) /\ ops[o].outcome = "Failed"
      /\ ops[o].payload \in Payloads
      /\ ops[o].polls = 0 /\ ops[o].statuses = <<>>

C4_Witness == Done(1) /\ ops[1].sendStatus = "ERROR"

\* C5: polling goes on only while the answer is NOT_FOUND: every answer but
\* the last is NOT_FOUND, after an answer other than NOT_FOUND the run has
\* ended without a further poll, and after FAILED it has ended in Failed with
\* the result payload of the service.
C5_StopsAtTerminalStatus ==
  \A o \in Ops :
    LET sq == ops[o].statuses IN
      sq # <<>> =>
        /\ AllNotFound(Front(sq))
        /\ (Last(sq) # "NOT_FOUND") =>
             (Done(o) /\ ops[o].polls = Len(sq))
        /\ (Last(sq) = "FAILED") =>
             (ops[o].outcome = "Failed" /\ ops[o].payload \in Payloads)

C5_Witness ==
  /\ Done(1) /\ Len(ops[1].statuses) > 1
  /\ Last(ops[1].statuses) = "FAILED"

\* C6: every run of submitTransaction ends in exactly one of Success, Failed
\* and TimedOut, and in Success only if a poll was answered SUCCESS, whatever
\* status the poll operation returns.
C6_SuccessOnlyAfterSuccess ==
  \A o \in Ops :
    (Done(o) /\ Submitted(o)) =>
      /\ ops[o].outcome \in {"Success", "Failed", "TimedOut"}
      /\ (ops[o].outcome = "Success") =>
           (\E i \in 1..Len(ops[o].statuses) : ops[o].statuses[i] = "SUCCESS")

\* C7: the steps of one revoke run in strict order: none begins before the
\* one before it has completed successfully; the envelope handed to the
\* signing authority is the assembled envelope of the simulated transaction;
\* sendTransaction gets the signed form of that envelope, after signing
\* succeeded.
C7_StrictOrder ==
  \A o \in Ops :
    /\ IsPrefix(ops[o].begun, StepOrder)
    /\ IsPrefix(ops[o].completed, ops[o].begun)
    /\ Len(ops[o].begun) <= Len(ops[o].completed) + 1
    /\ (Len(ops[o].begun) >= 3) => ops[o].simKind = "success"
    /\ (Len(ops[o].begun) >= 4) =>
         /\ ops[o].tx.contract # Null
         /\ ops[o].xdr = assembleTransaction(ops[o].tx)
         /\ ops[o].signReq = ops[o].xdr
    /\ (Len(ops[o].begun) = 5) =>
         /\ ~ops[o].signError
         /\ ops[o].sent = freighterSignTransaction(ops[o].xdr)

C7_Witness == ops[1].completed = StepOrder

\* C8: when the simulation is an error or not a success, nothing is
\* assembled, the signing authority is not asked, nothing is submitted, and
\* the simulation is not tried again.
C8_SimulationErrorStops ==
  \A o \in Ops :
    (ops[o].simKind \in {"error", "neither"}) =>
      /\ Done(o) /\ ops[o].outcome = "SimulationFailed"
      /\ ops[o].begun = <<"loadAccount", "simulate">>
      /\ ops[o].xdr = NoEnvelope
      /\ ops[o].signReq = NoEnvelope
      /\ ops[o].sent = NoEnvelope /\ ops[o].sendStatus = Null

C8_Witness == Done(1) /\ ops[1].simKind = "neither"

\* C9: when the signing authority returns an error, signTransaction fails,
\* nothing is submitted, and no second signing, build or submit is made for
\* the run.
C9_SigningRejectionStops ==
  \A o \in Ops :
    ops[o].signError =>
      /\ Done(o) /\ ops[o].outcome = "SigningRejected"
      /\ ops[o].begun = <<"loadAccount", "simulate", "assemble", "sign">>
      /\ ops[o].sent = NoEnvelope /\ ops[o].sendStatus = Null
      /\ ops[o].polls = 0

C9_Witness == Done(1) /\ ops[1].signError

\* C10: for the vesting schedule on display at most one revoke run (build,
\* sign, submit) is in flight at any time.
C10_OneRevokeInFlight ==
  displayMounted =>
    Cardinality({o \in InFlight :
                   /\ ops[o].args[1] = vestingContract
                   /\ ops[o].args[2] = schedule.recipient}) <= 1

\* C11: once a revoke has succeeded on the ledger for a schedule, no handleRevoke
\* run starts for that schedule again, the interval between the success and
\* the re-fetch of the schedule included.
C11_NoSecondRevoke ==
  [][\A o \in Ops :
       (ops[o].pc \in {"idle", "done"} /\ ops'[o].pc = "loadAccount") =>
         <<ops'[o].args[1], ops'[o].args[2]>> \notin chainRevoked]_vars

\* the simulations of fetchTokenInfo that have no catch of their own
RequiredMethods == {"name", "symbol", "decimals"}

C13_AbsentTotalSupplyShown ==
  (/\ load.pc = "done"
   /\ \A m \in RequiredMethods : load.results[m] = "ok"
   /\ "total_supply" \notin token) =>
    /\ DashView = "data"
    /\ tokenInfo.totalSupply = Sentinel

\* C14: fetchTopHolders returns the empty list, without an error and without
\* a historical query, when the asset code or the issuer is absent; and it
\* returns the empty list without an error when the query fails.
C14_TopHoldersNeverThrows ==
  LET absent == \/ topHolders.symbol \in {Undefined, ""}
                \/ topHolders.issuer \in {Undefined, ""}
  IN /\ topHolders.outcome # "threw"
     /\ absent =>
          /\ topHolders.queries = 0
          /\ (topHolders.pc # "idle") =>
               /\ topHolders.pc = "done"
               /\ topHolders.outcome = "returned"
               /\ topHolders.result = <<>>
     /\ (topHolders.answer = "failed") =>
          /\ topHolders.pc = "done"
          /\ topHolders.outcome = "returned"
          /\ topHolders.result = <<>>

C14_Witness ==
  /\ topHolders.pc = "done"
  /\ topHolders.answer = "failed"
  /\ topHolders.queries = 1

\* C15: for a page of records with balances >= 0, the sharePercent of each
\* holder is floor(balance * 10000 / sum) / 100 with sum the sum of the
\* balances of the page, it lies in [0, 100], it is 0 when sum is 0, and the
\* shares of the page add up to at most 100 (shares in hundredths of a
\* percent).
C15_SharePercent ==
  (topHolders.answer = "records") =>
    LET page == topHolders.page
        result == topHolders.result
        sum == SumSeq(page)
    IN /\ Len(result) = Len(page)
       /\ \A i \in 1..Len(page) :
            /\ result[i].sharePercent =
                 IF sum = 0 THEN 0 ELSE (page[i] * 10000) \div sum
            /\ result[i].sharePercent \in 0..10000
       /\ SumSeq([i \in 1..Len(result) |-> result[i].sharePercent])
            <= 10000

C15_Witness ==
  /\ topHolders.answer = "records"
  /\ Len(topHolders.page) = MaxHolders
  /\ SumSeq(topHolders.page) > 0
  /\ SumSeq([i \in 1..Len(topHolders.result) |->
               topHolders.result[i].sharePercent]) < 10000

\* C16: for total >= 0 and cliffLedger <= endLedger and every currentLedger,
\* the render computes a vested amount with 0 <= vested <= total.
C16_VestedWithinTotal ==
  (/\ vestingView.renders > 0
   /\ vesting.totalAmount >= 0
   /\ vesting.cliffLedger <= vesting.endLedger) =>
    /\ ~vestingView.raised
    /\ 0 <= vestingView.vestedBig
    /\ vestingView.vestedBig <= vesting.totalAmount

C16_Witness ==
  /\ vestingView.renders > 0
  /\ vesting.cliffLedger < vesting.endLedger
  /\ 0 < vestingView.vestedBig
  /\ vestingView.vestedBig < vesting.totalAmount

\* C17: for a schedule with total >= 0 and cliffLedger <= endLedger, a
\* render with a later currentLedger never computes a smaller vested amount,
\* and a render with an earlier one never a larger amount.
C17_VestedMonotonic ==
  [][(/\ vestingView.renders > 0
      /\ vestingView'.renders > vestingView.renders
      /\ vesting.cliffLedger <= vesting.endLedger
      /\ vesting'.totalAmount = vesting.totalAmount
      /\ vesting'.cliffLedger = vesting.cliffLedger
      /\ vesting'.endLedger = vesting.endLedger) =>
       /\ (vesting.currentLedger <= vesting'.currentLedger) =>
            vestingView.vestedBig <= vestingView'.vestedBig
       /\ (vesting'.currentLedger <= vesting.currentLedger) =>
            vestingView'.vestedBig <= vestingView.vestedBig]_vars

C17_Witness ==
  /\ vestingView.renders = 2
  /\ vesting.cliffLedger < vesting.currentLedger
  /\ vesting.currentLedger < vesting.endLedger
  /\ 0 < vestingView.vestedBig
  /\ vestingView.vestedBig < vesting.totalAmount

\* C18: no render divides by zero: the division is made only for
\* cliffLedger <= currentLedger < endLedger; for cliffLedger = endLedger
\* the vested amount is total when currentLedger >= endLedger and 0
\* otherwise; the cursor position is a quotient with a positive divisor
\* and lies in [0, 100].
C18_NoDivisionByZero ==
  (vestingView.renders > 0) =>
    /\ ~vestingView.raised
    /\ (vesting.cliffLedger = vesting.endLedger) =>
         vestingView.vestedBig =
           IF vesting.currentLedger >= vesting.endLedger
           THEN vesting.totalAmount ELSE 0
    /\ vestingView.timelinePos.den > 0
    /\ 0 <= vestingView.timelinePos.num
    /\ vestingView.timelinePos.num <= 100 * vestingView.timelinePos.den

C18_Witness ==
  /\ vestingView.renders > 0
  /\ vesting.cliffLedger = vesting.endLedger
  /\ vesting.currentLedger = vesting.endLedger
  /\ vesting.totalAmount > 0
  /\ vestingView.vestedBig = vesting.totalAmount

\* C19: the vested amount is 0 before the cliff, total from the end ledger
\* on, and floor(total * (current - cliff) / (end - cliff)) in between;
\* vestedPercent is floor(vested * 10000 / total) / 100, and 0 for total 0
\* (held in hundredths of a percent).  So vested(cliff) = 0 when cliff < end,
\* vested(end) = total, and total 1000, cliff 100, end 200, current 150 give
\* vested 500 and vestedPercent 50.00.
C19_VestedReference ==
  (vestingView.renders > 0) =>
    LET total == vesting.totalAmount
        cliff == vesting.cliffLedger
        end == vesting.endLedger
        current == vesting.currentLedger
        reference == IF current < cliff THEN 0
                     ELSE IF current >= end THEN total
                     ELSE (total * (current - cliff)) \div (end - cliff)
    IN /\ ~vestingView.raised
       /\ vestingView.vestedBig = reference
       /\ vestingView.vestedPercent =
            IF total = 0 THEN 0
            ELSE (vestingView.vestedBig * 10000) \div total
       /\ (cliff < end /\ current = cliff) => vestingView.vestedBig = 0
       /\ (current = end /\ cliff <= end) => vestingView.vestedBig = total
       /\ (total = 1000 /\ cliff = 100 /\ end = 200 /\ current = 150) =>
            /\ vestingView.vestedBig = 500
            /\ vestingView.vestedPercent = 5000

C19_Witness ==
  /\ vestingView.renders > 0
  /\ vesting = [totalAmount |-> 1000, cliffLedger |-> 100,
                endLedger |-> 200, currentLedger |-> 150]
  /\ vestingView.vestedBig = 500
  /\ vestingView.vestedPercent = 5000

\* C20: every request issued through useSoroban uses the ledger-service
\* URL, the historical-query URL and the passphrase of the network that is
\* selected in NetworkProvider when the operation is called.
C20_CallsUseSelectedNetwork ==
  \A i \in 1..Len(requests) :
    requests[i].config = NETWORKS(requests[i].selected)

\* the inverse parse of a formatted amount: the text before the point
\* without its grouping commas, times 10 ^ decimals, plus the digits after
\* the point padded on the right to decimals digits; the sign before the
\* integer part is that of the amount; ok is FALSE when a part is not made
\* of digits
IsDigits(str) == \A i \in 1..Len(str) : \E d \in 1..10 : DigitChars[d] = str[i]
Unsigned(str) == IF str # <<>> /\ str[1] = "-" THEN Tail(str) ELSE str
DotAt(str) ==
  IF \E i \in 1..Len(str) : str[i] = "."
  THEN CHOOSE i \in 1..Len(str) :
         str[i] = "." /\ \A j \in 1..(i - 1) : str[j] # "."
  ELSE 0
IntegerPart(str) ==
  IF DotAt(str) = 0 THEN str ELSE SubSeq(str, 1, DotAt(str) - 1)
FractionPart(str) ==
  IF DotAt(str) = 0 THEN <<>> ELSE SubSeq(str, DotAt(str) + 1, Len(str))
WithoutCommas(str) == SelectSeq(str, LAMBDA c : c # ",")
RECURSIVE padEnd(_, _)
padEnd(str, len) ==
  IF Len(str) >= len THEN str ELSE padEnd(Append(str, "0"), len)
InverseParse(text, decimals) ==
  LET int == WithoutCommas(IntegerPart(text))
      frac == padEnd(FractionPart(text), decimals)
      ok == /\ Unsigned(int) # <<>>
            /\ IsDigits(Unsigned(int))
            /\ IsDigits(frac)
            /\ Len(frac) = decimals
      magnitude == DigitsValue(Unsigned(int)) * Pow10(decimals) +
                   DigitsValue(frac)
  IN IF ~ok THEN [ok |-> FALSE, value |-> 0]
     ELSE [ok |-> TRUE,
           value |-> IF int[1] = "-" THEN -magnitude ELSE magnitude]

\* C21: for every raw amount, negative ones included, and every decimals,
\* parsing formatTokenAmount(raw, decimals) back with the inverse parse
\* yields raw; (10000000, 7) gives "1" and (15000000, 7) gives "1.5".
C21_FormatRoundTrips ==
  (amount.pc = "formatted") =>
     /\ InverseParse(amount.text, amount.decimals) =
          [ok |-> TRUE, value |-> amount.raw]
     /\ (amount.raw = 10000000 /\ amount.decimals = 7) =>
          amount.text = <<"1">>
     /\ (amount.raw = 15000000 /\ amount.decimals = 7) =>
          amount.text = <<"1", ".", "5">>

\* the answer (hi = 0, lo = 10_000_000_0) to total_supply of a token with 7
\* decimals has been decoded and formatted
ScenarioSupplyFormatted ==
  /\ amount.pc = "formatted"
  /\ amount.hi = 0
  /\ amount.lo = 100000000
  /\ amount.decimals = 7

\* C22: when the total_supply simulation returns (hi = 0, lo = 10_000_000_0)
\* and the token has 7 decimals, fetchTokenInfo reports totalSupply
\* "1,000,000".
C22_TotalSupplyMillion ==
  ScenarioSupplyFormatted =>
     amount.text = <<"1", ",", "0", "0", "0", ",", "0", "0", "0">>

\* C22, as the code has it: the answer (hi = 0, lo = 10_000_000_0) is the
\* raw amount 100000000, and at 7 decimals fetchTokenInfo reports
\* totalSupply "10".
C22_TotalSupplyTen ==
  ScenarioSupplyFormatted =>
     /\ amount.raw = 100000000
     /\ amount.text = <<"1", "0">>

C22_Witness == ScenarioSupplyFormatted /\ amount.text = <<"1", "0">>

\* the single character U+2026
Ellipsis == "HORIZONTAL ELLIPSIS"

FirstChars(str, n) == SubSeq(str, 1, n)
LastChars(str, n) == SubSeq(str, Len(str) - n + 1, Len(str))

\* C23: truncateAddress(addr, chars) returns addr unchanged when its length
\* is at most 2 * chars + 3, and otherwise the first chars + 1 characters,
\* the single character U+2026, and the last chars characters.
C23_TruncateAddress ==
  (truncation.pc = "returned") =>
     truncation.result =
       IF Len(truncation.addr) <= 2 * truncation.chars + 3
       THEN truncation.addr
       ELSE FirstChars(truncation.addr, truncation.chars + 1) \o
            <<Ellipsis>> \o
            LastChars(truncation.addr, truncation.chars)

\* C25: in AdminPanel at most one admin write-path action (mint, burn or
\* set_admin) is in flight at any time: while loading is not null, no
\* control of the panel starts another handleAction.
C25_OneAdminActionInFlight == Len(adminRuns) <= 1

\* a step starts an auto-refresh: performFetch(false, true)
RefreshStarts ==
  /\ Len(fetches') = Len(fetches) + 1
  /\ fetches'[Len(fetches')].isRefresh

\* C26: the auto-refresh never disturbs pagination: once further pages have
\* been appended with Load More, the interval starts no refresh, which would
\* replace the displayed list by the first page, whatever nextCursor is,
\* null after the last page included.
C26_RefreshKeepsPages ==
  [][RefreshStarts => Len(feed.operations) <= 1]_vars

\* the pages from the first one to page n
PagesTo(n) == [i \in 1..n |-> i]

\* C30: when a Load More request and an auto-refresh request overlap, in
\* every order of their responses the displayed list is the contiguous
\* sequence of pages from the first page to the page that precedes
\* nextCursor, none missing and none duplicated.
C30_ContiguousPages ==
  (feed.operations # <<>> /\ feed.nextCursor # NoCursor) =>
     feed.operations = PagesTo(feed.nextCursor - 1)

\* C24: after a revoke transaction has been submitted successfully the
\* schedule is re-fetched: the callback of the timer set on success runs
\* lookup, which starts the two fetches again; after a failed or rejected
\* revoke no re-fetch is triggered, a timer is set by a successful run only.
C24_RefetchAfterRevoke ==
  [][/\ (timers # <<>> /\ timers' = Tail(timers)) =>
          Len(lookups') = Len(lookups) + 1
     /\ (Len(timers') > Len(timers)) =>
          \E o \in Ops : /\ ops[o].pc # "done"
                         /\ ops'[o].pc = "done"
                         /\ ops'[o].outcome = "Success"]_vars

\* C27: in the revoke flow the network passphrase handed to the signing
\* authority is defined and equal to the passphrase the envelope was built
\* with and to the one the signed envelope is parsed with for submission,
\* whether NEXT_PUBLIC_NETWORK_PASSPHRASE is set or not and whatever network
\* is selected.
C27_OnePassphrase ==
  \A o \in Ops :
    /\ (ops[o].signReq # NoEnvelope) =>
         /\ ops[o].signOpts.networkPassphrase # Undefined
         /\ ops[o].signOpts.networkPassphrase = ops[o].tx.passphrase
    /\ (ops[o].sent # NoEnvelope) =>
         ops[o].parsedWith = ops[o].signOpts.networkPassphrase

\* C28: the revoke transaction is built against the vesting contract and the
\* recipient the displayed schedule was fetched from, whatever the user has
\* typed into the form since the lookup.
C28_RevokesDisplayedSchedule ==
  [][\A o \in Ops :
       (ops[o].pc # "loadAccount" /\ ops'[o].pc = "loadAccount") =>
          /\ ops'[o].args[1] = schedule.contract
          /\ ops'[o].args[2] = schedule.recipient]_vars

\* C29: when two lookups overlap, the loading flag is false only when no
\* lookup is still in flight (and what is displayed in the end is the
\* answer to the lookup started last).
C29_LoadingWhileInFlight == (lookups # <<>>) => loading

====
